---- MODULE Spec2Model ----
(***************************************************************************)
(* Model of the breadth-first site crawler of app.py: normalize_url,       *)
(* is_internal, fetch_html, extract_links, build_mermaid and crawl.        *)
(*                                                                         *)
(* Representation.  A Python string is a sequence of one-character         *)
(* strings.  A URL string is represented by the components urlparse        *)
(* splits it into (scheme, netloc, path, fragment), each a character       *)
(* sequence; geturl concatenates them again.  An optional value (None or   *)
(* a value) is the empty sequence or a one-element sequence.  The text of   *)
(* a response is represented by the set of href attributes of its anchors  *)
(* (the empty text is a text without anchors: neither adds an edge or a    *)
(* queue item).  Hrefs are stripped and have an empty or an absolute path  *)
(* (no relative-path merging).                                             *)
(*                                                                         *)
(* crawl is modelled one loop iteration per step.  The site is the         *)
(* environment: what requests.get does for a URL is chosen when the URL is *)
(* fetched.  The order in which the for loop iterates the set of links is  *)
(* chosen at every expansion.  TwoCrawls runs crawl a second time on the   *)
(* same site; NormSpec calls normalize_url on its own, and again on the    *)
(* string it returned.                                                     *)
(***************************************************************************)
EXTENDS Integers, Sequences, FiniteSets, TLC

(***************************************************************************)
(* Bounds of the model                                                     *)
(***************************************************************************)
MaxPagesBound == 4
MaxDepthBound == 3
MaxLinks == 2

(***************************************************************************)
(* Strings                                                                 *)
(***************************************************************************)
None == <<>>
Some(x) == <<x>>
TheValue(o) == o[1]

\* code points of the characters the model uses (Python compares strings by code point)
OrdTable ==
    "\"" :> 34
    @@ "#" :> 35
    @@ "-" :> 45
    @@ "/" :> 47
    @@ "0" :> 48
    @@ "1" :> 49
    @@ "2" :> 50
    @@ "3" :> 51
    @@ "4" :> 52
    @@ "8" :> 56
    @@ ":" :> 58
    @@ ">" :> 62
    @@ "N" :> 78
    @@ "\\" :> 92
    @@ "a" :> 97
    @@ "b" :> 98
    @@ "h" :> 104
    @@ "i" :> 105
    @@ "l" :> 108
    @@ "m" :> 109
    @@ "o" :> 111
    @@ "p" :> 112
    @@ "s" :> 115
    @@ "t" :> 116
    @@ "x" :> 120
    @@ "y" :> 121

Ord(c) == OrdTable[c]

\* s < t for Python strings: lexicographic by code point, a proper prefix is smaller
\* (D is the set of positions where the strings differ)
StrLess(s, t) ==
    \E a \in {s}, b \in {t} :
        \E D \in {{ k \in 1..(IF Len(a) < Len(b) THEN Len(a) ELSE Len(b)) : a[k] # b[k] }} :
            IF D = {} THEN Len(a) < Len(b)
            ELSE \E m \in D : (\A j \in D : m <= j) /\ Ord(a[m]) < Ord(b[m])

\* str.endswith
EndsWith(s, suffix) ==
    /\ Len(s) >= Len(suffix)
    /\ SubSeq(s, Len(s) - Len(suffix) + 1, Len(s)) = suffix

\* re.sub(r"/{2,}", "/", s): every run of two or more slashes becomes one slash
RECURSIVE CollapseSlashes(_)
CollapseSlashes(s) ==
    IF Len(s) < 2 THEN s
    ELSE IF s[1] = "/" /\ s[2] = "/" THEN CollapseSlashes(Tail(s))
    ELSE <<s[1]>> \o CollapseSlashes(Tail(s))

\* str.replace(old, new) for a one-character old
RECURSIVE Replace(_, _, _)
Replace(s, old, new) ==
    IF s = <<>> THEN <<>>
    ELSE (IF Head(s) = old THEN new ELSE <<Head(s)>>) \o Replace(Tail(s), old, new)

(***************************************************************************)
(* URLs                                                                    *)
(***************************************************************************)
HTTP == <<"h", "t", "t", "p">>
HTTPS == <<"h", "t", "t", "p", "s">>
MAILTO == <<"m", "a", "i", "l", "t", "o">>
PORT80 == <<":", "8", "0">>
PORT443 == <<":", "4", "4", "3">>

Url(s, n, p, f) == [scheme |-> s, netloc |-> n, path |-> p, fragment |-> f]

\* ParseResult.geturl(): the URL as one string (urlunparse writes "//" and the
\* netloc when there is a netloc, and also for an http or https URL without one)
geturl(u) ==
    (IF u.scheme = <<>> THEN <<>> ELSE u.scheme \o <<":">>)
    \o (IF u.netloc # <<>>
           \/ (u.scheme \in {HTTP, HTTPS} /\ ~(Len(u.path) >= 2 /\ u.path[1] = "/" /\ u.path[2] = "/"))
        THEN <<"/", "/">> \o u.netloc
             \o (IF u.path # <<>> /\ u.path[1] # "/" THEN <<"/">> ELSE <<>>)
        ELSE <<>>)
    \o u.path
    \o (IF u.fragment = <<>> THEN <<>> ELSE <<"#">> \o u.fragment)

\* the characters of a scheme (the letters; the model has no scheme with a digit)
SchemeChars ==
    { "a", "b", "c", "d", "e", "f", "g", "h", "i", "j", "k", "l", "m",
      "n", "o", "p", "q", "r", "s", "t", "u", "v", "w", "x", "y", "z" }

\* the first position of s that holds a character of cs, Len(s) + 1 when none does
FirstOf(s, cs) ==
    IF \E i \in 1..Len(s) : s[i] \in cs
    THEN CHOOSE i \in 1..Len(s) : s[i] \in cs /\ \A j \in 1..(i - 1) : s[j] \notin cs
    ELSE Len(s) + 1

\* s[m..n] as Python slices: empty when the range is
Slice(s, m, n) == IF m > n THEN <<>> ELSE SubSeq(s, m, n)

\* urllib.parse.urlparse(s): scheme up to the first ":", netloc after "//" up
\* to the next "/" or "#", then the path, and the fragment after the first "#"
urlparse(s) ==
    LET c == FirstOf(s, {":"})
        hasScheme == c > 1 /\ c <= Len(s) /\ \A k \in 1..(c - 1) : s[k] \in SchemeChars
        rest == IF hasScheme THEN Slice(s, c + 1, Len(s)) ELSE s
        hasNetloc == Len(rest) >= 2 /\ rest[1] = "/" /\ rest[2] = "/"
        tail == IF hasNetloc THEN Slice(rest, 3, Len(rest)) ELSE rest
        n == IF hasNetloc THEN FirstOf(tail, {"/", "#"}) ELSE 1
        after == Slice(tail, n, Len(tail))
        h == FirstOf(after, {"#"})
    IN Url(IF hasScheme THEN Slice(s, 1, c - 1) ELSE <<>>,
           Slice(tail, 1, n - 1),
           Slice(after, 1, h - 1),
           Slice(after, h + 1, Len(after)))

\* urllib.parse.urljoin(base, href)
urljoin(base, href) ==
    IF href.scheme = <<>> /\ href.netloc = <<>> /\ href.path = <<>> /\ href.fragment = <<>>
    THEN base
    ELSE IF href.scheme # <<>> /\ href.scheme # base.scheme THEN href
    ELSE IF href.netloc # <<>>
    THEN Url(base.scheme, href.netloc, href.path, href.fragment)
    ELSE IF href.path = <<>>
    THEN Url(base.scheme, base.netloc, base.path, href.fragment)
    ELSE Url(base.scheme, base.netloc, href.path, href.fragment)

\* urllib.parse.urldefrag(url)[0]
urldefrag(u) == [u EXCEPT !.fragment = <<>>]

BadSchemes ==
    { MAILTO, <<"t", "e", "l">>, <<"d", "a", "t", "a">>,
      <<"j", "a", "v", "a", "s", "c", "r", "i", "p", "t">> }

\* normalize_url(base, href): href is None or Some(reference); result None or Some(url)
normalize_url(base, href) ==
    IF href = None THEN None
    ELSE IF TheValue(href).scheme \in BadSchemes THEN None
    ELSE LET p == urldefrag(urljoin(base, TheValue(href)))
             n1 == IF EndsWith(p.netloc, PORT80) /\ p.scheme = HTTP
                   THEN SubSeq(p.netloc, 1, Len(p.netloc) - 3)
                   ELSE p.netloc
             n2 == IF EndsWith(n1, PORT443) /\ p.scheme = HTTPS
                   THEN SubSeq(n1, 1, Len(n1) - 4)
                   ELSE n1
             path == CollapseSlashes(IF p.path = <<>> THEN <<"/">> ELSE p.path)
         IN IF p.scheme \notin {HTTP, HTTPS} THEN None
            ELSE Some([p EXCEPT !.netloc = n2, !.path = path])

\* an is_internal that lets every URL pass
is_internal_NoFilter(url, root_netloc) == TRUE

\* is_internal(url, root_netloc)
is_internal(url, root_netloc) == url.netloc = root_netloc

\* extract_links(page_url, html): the set of normalized hrefs of the anchors
extract_links(page_url, html) ==
    { TheValue(normalize_url(page_url, Some(h))) :
        h \in { a \in html : normalize_url(page_url, Some(a)) # None } }

(***************************************************************************)
(* The site under crawl (the environment of fetch_html)                    *)
(***************************************************************************)
HostA == <<"a">>
HostB == <<"b">>

\* the seed as typed: "http://a:80"
SeedInputs == { Url(HTTP, HostA \o PORT80, <<>>, <<>>) }

\* the href attributes a page of the site may carry
Hrefs ==
    { Url(<<>>, <<>>, <<>>, <<"t", "o", "p">>),                  \* "#top"
      Url(HTTP, HostA \o PORT80, <<"/", "/", "x">>, <<"s">>),    \* "http://a:80//x#s"
      Url(HTTP, HostA, <<>>, <<>>),                              \* "http://a"
      Url(HTTPS, HostA \o PORT443, <<>>, <<>>),                  \* "https://a:443"
      Url(HTTP, HostB, <<"/">>, <<>>),                           \* "http://b/"
      Url(MAILTO, <<>>, <<"x">>, <<>>) }                         \* "mailto:x"

Bodies == { L \in SUBSET Hrefs : Cardinality(L) <= MaxLinks }

\* the texts of the responses that are not text/html (anchors or none)
OtherTexts == { L \in Bodies : L \subseteq { h \in Hrefs : h.path = <<"/", "/", "x">> } }

StatusCodes == {200, 404}

\* what requests.get(url) can do: raise, or return a response (status code,
\* Content-Type contains "text/html" or not, text)
Responses ==
    { [raised |-> TRUE, code |-> 0, ct_html |-> FALSE, text |-> {}] }
    \cup { [raised |-> FALSE, code |-> c, ct_html |-> FALSE, text |-> b] :
             c \in StatusCodes, b \in OtherTexts }
    \cup { [raised |-> FALSE, code |-> c, ct_html |-> TRUE, text |-> b] :
             c \in StatusCodes, b \in Bodies }

\* fetch_html with a status of 0 for a failed request
fetch_html_ErrZero(r) ==
    IF r.raised THEN [status |-> Some(0), html |-> None]
    ELSE IF ~r.ct_html THEN [status |-> Some(r.code), html |-> None]
    ELSE [status |-> Some(r.code), html |-> Some(r.text)]

\* fetch_html with r.raise_for_status(): a non-2xx response is an exception
fetch_html_RaiseForStatus(r) ==
    IF r.raised \/ r.code \notin 200..299 THEN [status |-> None, html |-> None]
    ELSE IF ~r.ct_html THEN [status |-> Some(r.code), html |-> None]
    ELSE [status |-> Some(r.code), html |-> Some(r.text)]

\* fetch_html without the Content-Type test
fetch_html_AnyContent(r) ==
    IF r.raised THEN [status |-> None, html |-> None]
    ELSE [status |-> Some(r.code), html |-> Some(r.text)]

\* fetch_html(url), given what requests.get did: the pair (status, html)
fetch_html(r) ==
    IF r.raised THEN [status |-> None, html |-> None]
    ELSE IF ~r.ct_html THEN [status |-> Some(r.code), html |-> None]
    ELSE [status |-> Some(r.code), html |-> Some(r.text)]

(***************************************************************************)
(* Graph exporter                                                          *)
(***************************************************************************)
\* sorted(S) for a set of URL strings: ascending
\* the sequence that has x at position r + 1 for every pair <<r, x>> of R
SeqByRank(R) == [i \in 1..Cardinality(R) |-> (CHOOSE p \in R : p[1] = i - 1)[2]]

\* every x of S with the number of elements of S below it
UrlRanks(S) ==
    { <<Cardinality({ y \in S : StrLess(geturl(y), geturl(x)) }), x>> : x \in S }

\* sorted(S, reverse=True): descending
sorted_Reverse(S) ==
    [i \in 1..Cardinality(S) |-> SeqByRank(UrlRanks(S))[Cardinality(S) + 1 - i]]

sorted(S) == [R \in {UrlRanks(S)} |-> SeqByRank(R)][UrlRanks(S)]

\* (a, b) < (c, d) for tuples of strings
EdgeLess(e, f) ==
    \/ StrLess(geturl(e[1]), geturl(f[1]))
    \/ e[1] = f[1] /\ StrLess(geturl(e[2]), geturl(f[2]))

\* sorted(S) for a set of (from, to) tuples: ascending
EdgeRanks(S) == { <<Cardinality({ y \in S : EdgeLess(y, x) }), x>> : x \in S }

sorted_edges(S) == [R \in {EdgeRanks(S)} |-> SeqByRank(R)][EdgeRanks(S)]

Digits == <<"0", "1", "2", "3", "4", "5", "6", "7", "8", "9">>

\* str(i) for i >= 0
RECURSIVE IntStr(_)
IntStr(i) ==
    IF i < 10 THEN <<Digits[i + 1]>>
    ELSE IntStr(i \div 10) \o <<Digits[(i % 10) + 1]>>

\* id_map[u] for the i-th node: "N" + str(i)
NodeId(i) == <<"N">> \o IntStr(i)

\* the index of u in nodes, 0 when u is not a node (u not in id_map)
IndexOf(nodes, u) ==
    IF \E i \in 1..Len(nodes) : nodes[i] = u
    THEN CHOOSE i \in 1..Len(nodes) : nodes[i] = u
    ELSE 0

DeclLine(nodes, i) ==
    <<" ", " ">> \o NodeId(i) \o <<"[", "\"">>
    \o Replace(geturl(nodes[i]), "\"", <<"\\", "\"">>) \o <<"\"", "]">>

ConnLine(nodes, e) ==
    <<" ", " ">> \o NodeId(IndexOf(nodes, e[1])) \o <<" ", "-", "-", ">", " ">>
    \o NodeId(IndexOf(nodes, e[2]))

\* a build_mermaid that tests the source of an edge only
KeptEdge_FromOnly(nodes, e) == IndexOf(nodes, e[1]) # 0

\* the edges build_mermaid keeps: both endpoints in id_map
KeptEdge(nodes, e) == IndexOf(nodes, e[1]) # 0 /\ IndexOf(nodes, e[2]) # 0

\* build_mermaid(nodes, edges): the lines of the text, in order
build_mermaid(nodes, edges_list) ==
    LET kept == SelectSeq(edges_list, LAMBDA e : KeptEdge(nodes, e))
    IN <<<<"f", "l", "o", "w", "c", "h", "a", "r", "t", " ", "T", "D">>>>
       \o [i \in 1..Len(nodes) |-> DeclLine(nodes, i)]
       \o [j \in 1..Len(kept) |-> ConnLine(nodes, kept[j])]

(***************************************************************************)
(* crawl                                                                   *)
(***************************************************************************)
VARIABLES seed, max_pages, max_depth, root_netloc, q, visited, edges,
          status_by_url, pc, branch, data, mmd, fetched, page_links, prev, norm

vars == <<seed, max_pages, max_depth, root_netloc, q, visited, edges,
          status_by_url, pc, branch, data, mmd, fetched, page_links, prev, norm>>

\* dict.get(u): None when u has no entry
Get(d, u) == IF u \in DOMAIN d THEN d[u] ELSE None

\* the orders a for loop may iterate a set in
Orders(S) ==
    { s \in [1..Cardinality(S) -> S] : \A i, j \in 1..Cardinality(S) : s[i] = s[j] => i = j }

\* seed = normalize_url(seed, "") or seed
ResolveSeed(s) ==
    LET n == normalize_url(s, Some(Url(<<>>, <<>>, <<>>, <<>>)))
    IN IF n # None THEN TheValue(n) ELSE s

\* pc is the position in crawl ("loop": at the while test, "done": returned);
\* branch is the way the last iteration went; fetched is the record of the calls
\* of fetch_html: per URL, how often, at which depth, and the last response;
\* page_links is what extract_links returned in the last iteration (empty when
\* it was not called); prev is what an earlier crawl of the same site fetched
\* and returned (None in the first crawl); norm is the call of normalize_url
\* under study (None while crawl runs)
Init ==
    /\ \E s \in SeedInputs : seed = ResolveSeed(s)
    /\ max_pages \in 1..MaxPagesBound
    /\ max_depth \in 0..MaxDepthBound
    /\ root_netloc = seed.netloc
    /\ q = <<<<seed, 0>>>>
    /\ visited = {}
    /\ edges = {}
    /\ status_by_url = <<>>
    /\ pc = "loop"
    /\ branch = "start"
    /\ data = None
    /\ mmd = None
    /\ fetched = <<>>
    /\ page_links = {}
    /\ prev = None
    /\ norm = None

\* a loop test that is off by one
LoopCond_OffByOne == q # <<>> /\ Cardinality(visited) <= max_pages

\* a loop test that forgets the page limit
LoopCond_NoCap == q # <<>>

\* a loop test that stops one page early
LoopCond_Early == q # <<>> /\ Cardinality(visited) + 1 < max_pages

\* while q and len(visited) < max_pages
LoopCond == q # <<>> /\ Cardinality(visited) < max_pages

Fetch(url, depth, r) ==
    [u \in DOMAIN fetched \cup {url} |->
        IF u = url
        THEN [n |-> (IF url \in DOMAIN fetched THEN fetched[url].n ELSE 0) + 1,
              depth |-> depth, raised |-> r.raised, code |-> r.code,
              ct_html |-> r.ct_html]
        ELSE fetched[u]]

\* a status map that is written only when there is a status
SetStatus_IfStatus(d, url, status) ==
    IF status = None THEN d
    ELSE [u \in DOMAIN d \cup {url} |-> IF u = url THEN status ELSE d[u]]

\* status_by_url[url] = status
SetStatus(d, url, status) ==
    [u \in DOMAIN d \cup {url} |-> IF u = url THEN status ELSE d[u]]

\* a loop without the visited test at dequeue: the URL is fetched again
Discard_Refetch ==
    /\ pc = "loop"
    /\ LoopCond
    /\ Head(q)[1] \in visited
    /\ \E r \in Responses :
          /\ status_by_url' = SetStatus(status_by_url, Head(q)[1], fetch_html(r).status)
          /\ fetched' = Fetch(Head(q)[1], Head(q)[2], r)
    /\ q' = Tail(q)
    /\ branch' = "discard"
    /\ page_links' = {}
    /\ UNCHANGED <<seed, max_pages, max_depth, root_netloc, visited, edges, pc, data, mmd,
                   prev, norm>>

\* a loop that puts an already visited URL back at the end of the queue
Discard_Requeue ==
    /\ pc = "loop"
    /\ LoopCond
    /\ Head(q)[1] \in visited
    /\ q' = Tail(q) \o <<Head(q)>>
    /\ branch' = "discard"
    /\ page_links' = {}
    /\ UNCHANGED <<seed, max_pages, max_depth, root_netloc, visited, edges,
                   status_by_url, pc, data, mmd, fetched, prev, norm>>

\* url in visited: continue
Discard ==
    /\ pc = "loop"
    /\ LoopCond
    /\ Head(q)[1] \in visited
    /\ q' = Tail(q)
    /\ branch' = "discard"
    /\ page_links' = {}
    /\ UNCHANGED <<seed, max_pages, max_depth, root_netloc, visited, edges,
                   status_by_url, pc, data, mmd, fetched, prev, norm>>

\* the in-scope links among links
Internal(links) == { x \in links : is_internal(x, root_netloc) }

\* the site is unchanged between two crawls: a URL the earlier crawl fetched
\* answers as it did then (same outcome, status and Content-Type, and, where the
\* earlier crawl read the links of its text, the same in-scope links)
SameSite(url, r) ==
    IF prev = None THEN TRUE
    ELSE IF url \notin DOMAIN TheValue(prev).fetched THEN TRUE
    ELSE \E f \in {TheValue(prev).fetched[url]} :
            /\ r.raised = f.raised
            /\ r.code = f.code
            /\ r.ct_html = f.ct_html
            /\ IF ~f.raised /\ f.ct_html /\ f.depth < max_depth
               THEN Internal(extract_links(url, r.text))
                      = { e[2] : e \in { g \in TheValue(prev).edges : g[1] = url } }
               ELSE TRUE

\* a depth test that is off by one
NoExpand_Strict(html, depth) == html = None \/ depth > max_depth

\* if not html or depth >= max_depth: continue
NoExpand(html, depth) == html = None \/ depth >= max_depth

\* the page is recorded and not expanded
VisitLeaf ==
    /\ pc = "loop"
    /\ LoopCond
    /\ LET url == Head(q)[1]
           depth == Head(q)[2]
       IN /\ url \notin visited
          /\ \E r \in Responses :
                \E out \in {fetch_html(r)} :
                   /\ SameSite(url, r)
                   /\ NoExpand(out.html, depth)
                   /\ visited' = visited \cup {url}
                   /\ status_by_url' = SetStatus(status_by_url, url, out.status)
                   /\ fetched' = Fetch(url, depth, r)
                   /\ q' = Tail(q)
    /\ branch' = "leaf"
    /\ page_links' = {}
    /\ UNCHANGED <<seed, max_pages, max_depth, root_netloc, edges, pc, data, mmd, prev, norm>>

\* a for loop that records the edge before the is_internal test
NewEdges_All(url, links) == { <<url, l>> : l \in links }

\* a for loop that records the edge inside the visited test
NewEdges_Fresh(url, links) ==
    { <<url, l>> : l \in { x \in links : is_internal(x, root_netloc) /\ x \notin visited \cup {url} } }

\* the edges the for loop adds: one per link that passes is_internal
NewEdges(url, links) == { <<url, l>> : l \in { x \in links : is_internal(x, root_netloc) } }

\* a for loop that appends every internal link, visited or not
NewItems_NoVisitedTest(order, depth, vis) ==
    LET fresh == SelectSeq(order, LAMBDA l : is_internal(l, root_netloc))
    IN [i \in 1..Len(fresh) |-> <<fresh[i], depth + 1>>]

\* the items the for loop appends, in iteration order: the internal links not in visited
NewItems(order, depth, vis) ==
    LET fresh == SelectSeq(order, LAMBDA l : is_internal(l, root_netloc) /\ l \notin vis)
    IN [i \in 1..Len(fresh) |-> <<fresh[i], depth + 1>>]

\* a queue that takes new items at the front (appendleft)
Enqueue_Front(rest, items) == items \o rest

\* q.append(item) for every item, in order
Enqueue(rest, items) == rest \o items

\* the page is recorded and its links are recorded and enqueued
VisitExpand ==
    /\ pc = "loop"
    /\ LoopCond
    /\ LET url == Head(q)[1]
           depth == Head(q)[2]
       IN /\ url \notin visited
          /\ \E r \in Responses :
                \E out \in {fetch_html(r)} :
                   /\ SameSite(url, r)
                   /\ ~NoExpand(out.html, depth)
                   /\ visited' = visited \cup {url}
                   /\ status_by_url' = SetStatus(status_by_url, url, out.status)
                   /\ fetched' = Fetch(url, depth, r)
                   /\ \E links \in {extract_links(url, TheValue(out.html))} :
                         /\ page_links' = links
                         /\ edges' = edges \cup NewEdges(url, links)
                         /\ \E order \in Orders(links) :
                               q' = Enqueue(Tail(q), NewItems(order, depth, visited'))
    /\ branch' = "expand"
    /\ UNCHANGED <<seed, max_pages, max_depth, root_netloc, pc, data, mmd, prev, norm>>

\* data["nodes"]
NodeList(nodes) ==
    [i \in 1..Len(nodes) |-> [url |-> nodes[i], status |-> Get(status_by_url, nodes[i])]]

\* data["edges"]
EdgeList(edges_list) ==
    [i \in 1..Len(edges_list) |-> [from |-> edges_list[i][1], to |-> edges_list[i][2]]]

\* the loop is left: the result is built and returned
Finish ==
    /\ pc = "loop"
    /\ ~LoopCond
    /\ \E nodes \in {sorted(visited)}, edges_list \in {sorted_edges(edges)} :
          /\ data' = Some([seed |-> seed, nodes |-> NodeList(nodes),
                           edges |-> EdgeList(edges_list)])
          /\ mmd' = Some(build_mermaid(nodes, edges_list))
    /\ pc' = "done"
    /\ branch' = "return"
    /\ page_links' = {}
    /\ UNCHANGED <<seed, max_pages, max_depth, root_netloc, q, visited, edges,
                   status_by_url, fetched, prev, norm>>

Next == Discard \/ VisitLeaf \/ VisitExpand \/ Finish

\* crawl is called again with the same arguments (the button is pressed again)
CrawlAgain ==
    /\ pc = "done"
    /\ prev = None
    /\ prev' = Some([data |-> data, mmd |-> mmd, fetched |-> fetched, edges |-> edges])
    /\ q' = <<<<seed, 0>>>>
    /\ visited' = {}
    /\ edges' = {}
    /\ status_by_url' = <<>>
    /\ pc' = "loop"
    /\ branch' = "start"
    /\ data' = None
    /\ mmd' = None
    /\ fetched' = <<>>
    /\ page_links' = {}
    /\ UNCHANGED <<seed, max_pages, max_depth, root_netloc, norm>>

NextTwice == Next \/ CrawlAgain

Spec == Init /\ [][Next]_vars

\* crawl is one blocking call and every fetch returns (it has a timeout): the
\* loop keeps taking steps until it returns
FairSpec == Spec /\ WF_vars(Next)

\* two crawls of the same site, one after the other
TwoCrawls == Init /\ [][NextTwice]_vars

(***************************************************************************)
(* normalize_url called on its own                                         *)
(***************************************************************************)
\* the base URLs of the calls: "http://a/", "https://a/x", "http://a:80"
NormBases ==
    { Url(HTTP, HostA, <<"/">>, <<>>),
      Url(HTTPS, HostA, <<"/", "x">>, <<>>),
      Url(HTTP, HostA \o PORT80, <<>>, <<>>) }

\* the hrefs of the calls: None, the hrefs of the site, and
\* "", "tel:1", "javascript:x", "data:x", "ftp://a/", "/x//y", "//b//x",
\* "http://a:443/", "http:///x", "http://a:80:80/", "https://a:443:443/x"
NormHrefs ==
    {None}
    \cup { Some(h) : h \in Hrefs }
    \cup { Some(Url(<<>>, <<>>, <<>>, <<>>)),
           Some(Url(<<"t", "e", "l">>, <<>>, <<"1">>, <<>>)),
           Some(Url(<<"j", "a", "v", "a", "s", "c", "r", "i", "p", "t">>, <<>>, <<"x">>, <<>>)),
           Some(Url(<<"d", "a", "t", "a">>, <<>>, <<"x">>, <<>>)),
           Some(Url(<<"f", "t", "p">>, HostA, <<"/">>, <<>>)),
           Some(Url(<<>>, <<>>, <<"/", "x", "/", "/", "y">>, <<>>)),
           Some(Url(<<>>, HostB, <<"/", "/", "x">>, <<>>)),
           Some(Url(HTTP, HostA \o PORT443, <<"/">>, <<>>)),
           Some(Url(HTTP, <<>>, <<"/", "x">>, <<>>)),
           Some(Url(HTTP, HostA \o PORT80 \o PORT80, <<"/">>, <<>>)),
           Some(Url(HTTPS, HostA \o PORT443 \o PORT443, <<"/", "x">>, <<>>)) }

\* one call normalize_url(base, href) is about to be made; no crawl runs
NormInit ==
    /\ \E s \in SeedInputs : seed = ResolveSeed(s)
    /\ max_pages = 1
    /\ max_depth = 0
    /\ root_netloc = seed.netloc
    /\ q = <<<<seed, 0>>>>
    /\ visited = {}
    /\ edges = {}
    /\ status_by_url = <<>>
    /\ pc = "loop"
    /\ branch = "start"
    /\ data = None
    /\ mmd = None
    /\ fetched = <<>>
    /\ page_links = {}
    /\ prev = None
    /\ norm \in { Some([stage |-> "call", base |-> b, href |-> h, out |-> None, again |-> None]) :
                     b \in NormBases, h \in NormHrefs }

\* out = normalize_url(base, href)
Normalize ==
    /\ norm # None
    /\ TheValue(norm).stage = "call"
    /\ norm' = Some([TheValue(norm) EXCEPT
                       !.stage = "returned",
                       !.out = normalize_url(TheValue(norm).base, TheValue(norm).href)])
    /\ UNCHANGED <<seed, max_pages, max_depth, root_netloc, q, visited, edges,
                   status_by_url, pc, branch, data, mmd, fetched, page_links, prev>>

\* again = normalize_url(out, ""): the returned string is parsed as the base
Renormalize ==
    /\ norm # None
    /\ TheValue(norm).stage = "returned"
    /\ TheValue(norm).out # None
    /\ norm' = Some([TheValue(norm) EXCEPT
                       !.stage = "again",
                       !.again = normalize_url(urlparse(geturl(TheValue(TheValue(norm).out))),
                                               Some(urlparse(<<>>)))])
    /\ UNCHANGED <<seed, max_pages, max_depth, root_netloc, q, visited, edges,
                   status_by_url, pc, branch, data, mmd, fetched, page_links, prev>>

NormNext == Normalize \/ Renormalize

NormSpec == NormInit /\ [][NormNext]_vars

(***************************************************************************)
(* Properties                                                              *)
(***************************************************************************)
Result == TheValue(data)
Diagram == TheValue(mmd)

\* what the record of fetches says of a fetched URL
Raised(u) == fetched[u].raised
HasBody(u) == ~fetched[u].raised /\ fetched[u].ct_html
Non2xx(u) == ~fetched[u].raised /\ fetched[u].code \notin 200..299
SourceOfEdge(u) == \E e \in edges : e[1] = u
Queued(u) == \E i \in 1..Len(q) : q[i][1] = u
NodeUrls == { Result.nodes[i].url : i \in 1..Len(Result.nodes) }

\* C1: the number of visited URLs never exceeds max_pages, and the exported
\* nodes list has at most max_pages entries
C1_PageCap ==
    /\ Cardinality(visited) <= max_pages
    /\ pc = "done" => Len(Result.nodes) <= max_pages

\* the page limit stopped a crawl that still had URLs queued
C1_Witness ==
    /\ pc = "done"
    /\ max_pages >= 2
    /\ Len(Result.nodes) = max_pages
    /\ \E i \in 1..Len(q) : q[i][1] \notin visited

\* C2: every URL is fetched at most once (the fetched URLs are the visited ones,
\* each fetched exactly once), and dequeuing a URL that is already visited changes
\* nothing but the queue: no fetch, visited, edges and statuses as they were
C2_FetchOnce ==
    /\ [](DOMAIN fetched = visited /\ \A u \in DOMAIN fetched : fetched[u].n = 1)
    /\ [][(pc = "loop" /\ LoopCond /\ Head(q)[1] \in visited)
            => (q' = Tail(q) /\ UNCHANGED <<visited, edges, status_by_url, fetched>>)]_vars

\* a queued URL was found visited at dequeue and the loop went on
C2_Witness == branch = "discard" /\ pc = "loop" /\ Cardinality(visited) < max_pages

C4_Original ==
    (pc = "done" /\ max_pages = 1) => (Len(Result.nodes) = 1 /\ Len(Result.edges) = 0)

\* C4 amended: with max_pages = 1 the result has exactly 1 node, the seed; every
\* exported edge has the seed as its source, and there is no edge when the seed
\* was not expanded (no body, or max_depth = 0)
C4_OnePage ==
    (pc = "done" /\ max_pages = 1) =>
        /\ Len(Result.nodes) = 1
        /\ Result.nodes[1].url = seed
        /\ \A i \in 1..Len(Result.edges) : Result.edges[i].from = seed
        /\ (max_depth = 0 \/ ~HasBody(seed)) => Len(Result.edges) = 0

\* a crawl with max_pages = 1 that exports edges to pages it never fetched
C4_Witness ==
    /\ pc = "done"
    /\ max_pages = 1
    /\ Len(Result.edges) >= 2
    /\ \E i \in 1..Len(Result.edges) : Result.edges[i].to \notin visited

\* C5: no URL is visited (or queued) at a depth above max_depth; a page visited
\* at depth >= max_depth is recorded and is the source of no edge, and its
\* iteration enqueues nothing; with max_depth = 0 the result is the seed alone
C5_DepthLimit ==
    /\ [](/\ \A u \in DOMAIN fetched :
               /\ fetched[u].depth <= max_depth
               /\ fetched[u].depth >= max_depth =>
                     (u \in visited /\ u \in DOMAIN status_by_url /\ ~SourceOfEdge(u))
          /\ \A i \in 1..Len(q) : q[i][2] <= max_depth
          /\ (pc = "done" /\ max_depth = 0) =>
                (NodeUrls = {seed} /\ Len(Result.nodes) = 1 /\ Len(Result.edges) = 0))
    /\ [][(pc = "loop" /\ LoopCond /\ Head(q)[1] \notin visited /\ Head(q)[2] >= max_depth)
            => (q' = Tail(q) /\ edges' = edges /\ Head(q)[1] \in visited')]_vars

\* a page with an HTML body was visited at depth max_depth >= 1 and not expanded
C5_Witness ==
    /\ branch = "leaf"
    /\ max_depth >= 1
    /\ \E u \in DOMAIN fetched : fetched[u].depth = max_depth /\ HasBody(u)

\* C6: when every fetch fails outright the crawl still returns (nothing is
\* left to do but return), and the result is the seed alone with status null
\* and no edge
C6_AllFail ==
    (fetched # <<>> /\ \A u \in DOMAIN fetched : Raised(u)) =>
        /\ q = <<>>
        /\ pc = "done" =>
              Result = [seed |-> seed,
                        nodes |-> << [url |-> seed, status |-> None] >>,
                        edges |-> <<>>]

\* a crawl allowed several pages and levels returned after its only fetch failed
C6_Witness ==
    /\ pc = "done"
    /\ max_pages >= 2
    /\ max_depth >= 1
    /\ fetched # <<>>
    /\ \A u \in DOMAIN fetched : Raised(u)

\* C7 as stated: a URL whose response has a non-2xx status gets a null status
\* and is never the source of an edge
C7_Original ==
    \A u \in DOMAIN fetched :
        Non2xx(u) => (u \in visited /\ status_by_url[u] = None /\ ~SourceOfEdge(u))

\* C7 amended: a URL whose response has a non-2xx status is recorded as visited
\* with that numeric status; it is expanded as any other page is (when the
\* response is text/html and the depth is below max_depth) and the loop goes on
C7_Non2xx ==
    /\ [](\A u \in DOMAIN fetched :
             Non2xx(u) =>
                /\ u \in visited
                /\ status_by_url[u] = Some(fetched[u].code)
                /\ pc = "done" =>
                      \E i \in 1..Len(Result.nodes) :
                          Result.nodes[i] = [url |-> u, status |-> Some(fetched[u].code)])
    /\ [][\A u \in (DOMAIN fetched') \ DOMAIN fetched :
             (fetched'[u].code \notin 200..299 /\ ~fetched'[u].raised) =>
                /\ pc' = "loop"
                /\ branch' = (IF fetched'[u].ct_html /\ fetched'[u].depth < max_depth
                              THEN "expand" ELSE "leaf")]_vars

\* a page answered with status 404 is the source of an exported edge
C7_Witness ==
    /\ pc = "done"
    /\ \E u \in DOMAIN fetched :
          /\ fetched[u].code = 404
          /\ ~Raised(u)
          /\ \E i \in 1..Len(Result.edges) : Result.edges[i].from = u

\* C8: a page whose fetch yields no body (the request failed, or the content type
\* is not text/html) is recorded as visited with its status (null, or the
\* status code of the response), is the source of no edge, and its iteration
\* enqueues nothing
C8_NoBody ==
    /\ [](\A u \in DOMAIN fetched :
             ~HasBody(u) =>
                /\ u \in visited
                /\ u \in DOMAIN status_by_url
                /\ status_by_url[u] = (IF Raised(u) THEN None ELSE Some(fetched[u].code))
                /\ ~SourceOfEdge(u))
    /\ [][\A u \in (DOMAIN fetched') \ DOMAIN fetched :
             (fetched'[u].raised \/ ~fetched'[u].ct_html) =>
                (q' = Tail(q) /\ edges' = edges /\ branch' = "leaf")]_vars

\* a non-HTML response with status 404 was recorded at a depth below max_depth
C8_Witness ==
    /\ branch = "leaf"
    /\ \E u \in DOMAIN fetched :
          /\ ~Raised(u)
          /\ ~fetched[u].ct_html
          /\ fetched[u].code = 404
          /\ fetched[u].depth < max_depth
          /\ status_by_url[u] = Some(404)

\* C9 as stated: both endpoints of every exported edge are exported nodes
C9_Original ==
    pc = "done" =>
        \A i \in 1..Len(Result.edges) :
            Result.edges[i].from \in NodeUrls /\ Result.edges[i].to \in NodeUrls

\* C9 amended: the source of every edge is a visited URL and its target is
\* visited or still queued; so in the result every edge's 'from' is a node, and
\* its 'to' is a node too when the crawl ended with an empty queue (an edge to
\* a URL that is not a node exists only when the page limit stopped the crawl)
C9_Endpoints ==
    /\ \A e \in edges : e[1] \in visited /\ (e[2] \in visited \/ Queued(e[2]))
    /\ pc = "done" =>
          /\ { <<Result.edges[i].from, Result.edges[i].to>> : i \in 1..Len(Result.edges) } = edges
          /\ NodeUrls = visited
          /\ \A i \in 1..Len(Result.edges) :
                /\ Result.edges[i].from \in NodeUrls
                /\ Result.edges[i].to \notin NodeUrls =>
                      (Cardinality(visited) = max_pages /\ Queued(Result.edges[i].to))

\* the result has an edge to a URL that is not among its nodes
C9_Witness ==
    /\ pc = "done"
    /\ \E i \in 1..Len(Result.edges) :
          Result.edges[i].from \in NodeUrls /\ Result.edges[i].to \notin NodeUrls

\* reading the diagram text back
ArrowText == <<" ", "-", "-", ">", " ">>
OpenText == <<"[", "\"">>
CloseText == <<"\"", "]">>
FoundAt(line, i, text) ==
    /\ i + Len(text) - 1 <= Len(line)
    /\ SubSeq(line, i, i + Len(text) - 1) = text
IsConn(line) == \E i \in 1..Len(line) : FoundAt(line, i, ArrowText)
IsDecl(line) ==
    /\ ~IsConn(line)
    /\ EndsWith(line, CloseText)
    /\ \E i \in 1..Len(line) : FoundAt(line, i, OpenText)
LabelOf(line) ==
    LET i == CHOOSE k \in 1..Len(line) :
                /\ FoundAt(line, k, OpenText)
                /\ \A j \in 1..(k - 1) : ~FoundAt(line, j, OpenText)
    IN SubSeq(line, i + 2, Len(line) - 2)
Escaped(u) == Replace(geturl(u), "\"", <<"\\", "\"">>)
DeclLines == { l \in 1..Len(Diagram) : IsDecl(Diagram[l]) }
ConnLines == { l \in 1..Len(Diagram) : IsConn(Diagram[l]) }
EdgesBetweenNodes ==
    { i \in 1..Len(Result.edges) :
        Result.edges[i].from \in NodeUrls /\ Result.edges[i].to \in NodeUrls }

\* C10 as stated: the diagram has one declaration line per node and one
\* connection line per entry of edges
C10_Original ==
    pc = "done" =>
        /\ Cardinality(DeclLines) = Len(Result.nodes)
        /\ Cardinality(ConnLines) = Len(Result.edges)

\* C10 amended: the diagram has exactly one declaration line per node and exactly
\* one connection line per entry of edges whose two endpoints are nodes (every
\* entry of edges, when the crawl ended with an empty queue)
C10_RoundTrip ==
    pc = "done" =>
        /\ Cardinality(DeclLines) = Len(Result.nodes)
        /\ \A i \in 1..Len(Result.nodes) :
              Cardinality({ l \in DeclLines :
                  LabelOf(Diagram[l]) = Escaped(Result.nodes[i].url) }) = 1
        /\ Cardinality(ConnLines) = Cardinality(EdgesBetweenNodes)
        /\ \A i \in EdgesBetweenNodes :
              Cardinality({ l \in ConnLines :
                  Diagram[l] = ConnLine([k \in 1..Len(Result.nodes) |-> Result.nodes[k].url],
                                        <<Result.edges[i].from, Result.edges[i].to>>) }) = 1
        /\ Len(Diagram) = 1 + Cardinality(DeclLines) + Cardinality(ConnLines)
        /\ q = <<>> => Cardinality(ConnLines) = Len(Result.edges)

\* a diagram with connection lines, but fewer than the result has edges
C10_Witness ==
    /\ pc = "done"
    /\ Cardinality(ConnLines) >= 1
    /\ Cardinality(ConnLines) < Len(Result.edges)

\* C11: two crawls of the same unchanged site with the same seed, max_pages and
\* max_depth return identical nodes, edges and diagram text, whatever the order
\* in which the links of each page are iterated and enqueued
C11_SameResult ==
    (pc = "done" /\ prev # None)
        => (data = TheValue(prev).data /\ mmd = TheValue(prev).mmd)

\* the URLs the crawl has enqueued, visited or made the target of an edge
Touched == visited \cup { q[i][1] : i \in 1..Len(q) } \cup { e[2] : e \in edges }

RECURSIVE ReachWithin(_)
ReachWithin(k) ==
    IF k = 0 THEN {seed}
    ELSE LET R == ReachWithin(k - 1)
         IN R \cup { e[2] : e \in { f \in edges : f[1] \in R /\ f[1] \in DOMAIN fetched
                                                  /\ HasBody(f[1]) } }

\* C13: when the in-scope URLs within max_depth links of the seed are at most
\* max_pages, the crawl ends with exactly these URLs visited
C13_Complete ==
    (pc = "done" /\ Cardinality(ReachWithin(max_depth)) <= max_pages)
        => visited = ReachWithin(max_depth)

\* a link cycle of three pages was crawled below both limits: exactly 3 nodes
C13_Witness ==
    /\ pc = "done"
    /\ q = <<>>
    /\ Cardinality(visited) = 3
    /\ Len(Result.nodes) = 3
    /\ max_pages > 3
    /\ max_depth >= 3
    /\ \E x, y \in visited \ {seed} :
          /\ x # y
          /\ edges = { <<seed, x>>, <<x, y>>, <<y, seed>> }

\* s < t for Python strings, character by character
RECURSIVE LexLess(_, _)
LexLess(s, t) ==
    IF t = <<>> THEN FALSE
    ELSE IF s = <<>> THEN TRUE
    ELSE IF s[1] = t[1] THEN LexLess(Tail(s), Tail(t))
    ELSE Ord(s[1]) < Ord(t[1])

\* C14: the exported nodes are the visited URLs, one entry each, strictly
\* ascending by url; the exported edges are the recorded edges, one entry each,
\* strictly ascending by the pair (from, to)
C14_Sorted ==
    pc = "done" =>
        /\ Len(Result.nodes) = Cardinality(visited)
        /\ NodeUrls = visited
        /\ \A i \in 1..(Len(Result.nodes) - 1) :
              LexLess(geturl(Result.nodes[i].url), geturl(Result.nodes[i + 1].url))
        /\ Len(Result.edges) = Cardinality(edges)
        /\ { <<Result.edges[i].from, Result.edges[i].to>> : i \in 1..Len(Result.edges) } = edges
        /\ \A i \in 1..(Len(Result.edges) - 1) :
              LET e == Result.edges[i]
                  f == Result.edges[i + 1]
              IN \/ LexLess(geturl(e.from), geturl(f.from))
                 \/ e.from = f.from /\ LexLess(geturl(e.to), geturl(f.to))

\* a result of three nodes and four edges or more, where two pages link to the
\* same URL and that URL was queued twice (one entry was left over)
C14_Witness ==
    /\ pc = "done"
    /\ Len(Result.nodes) >= 3
    /\ Len(Result.edges) >= 4
    /\ \E e, f \in edges :
          /\ e[1] # f[1]
          /\ e[2] = f[2]
          /\ e[2] \in visited
          /\ Queued(e[2])

\* the call of normalize_url under study
Call == TheValue(norm)

\* C15: for every URL u that normalize_url returns, normalize_url(u, "") returns u
C15_Idempotent ==
    (norm # None /\ Call.stage = "again")
        => (Call.again # None /\ geturl(TheValue(Call.again)) = geturl(TheValue(Call.out)))

\* C16: every URL normalize_url returns has scheme http or https, no fragment,
\* no explicit default port (:80 on http, :443 on https) and no run of two or
\* more slashes in its path; a null href and an href that starts with mailto:,
\* tel:, javascript: or data: return no result, whatever the base
C16_Invariants ==
    (norm # None /\ Call.stage # "call") =>
        /\ (Call.href = None \/ TheValue(Call.href).scheme \in BadSchemes) => Call.out = None
        /\ Call.out # None =>
              LET u == urlparse(geturl(TheValue(Call.out)))
              IN /\ u.scheme \in {HTTP, HTTPS}
                 /\ u.fragment = <<>>
                 /\ \A i \in 1..Len(geturl(TheValue(Call.out))) : geturl(TheValue(Call.out))[i] # "#"
                 /\ ~(u.scheme = HTTP /\ EndsWith(u.netloc, PORT80))
                 /\ ~(u.scheme = HTTPS /\ EndsWith(u.netloc, PORT443))
                 /\ \A i \in 1..(Len(u.path) - 1) : ~(u.path[i] = "/" /\ u.path[i + 1] = "/")

\* C17: an iteration that expands a page (the page has a body and its depth is
\* below max_depth) makes the edges leaving the page exactly the in-scope links
\* extract_links returned, adds no other edge, and no iteration removes an edge
\* or adds one without expanding
C17_EdgesOfExpanded ==
    [][/\ edges \subseteq edges'
       /\ (pc = "loop" /\ visited' # visited) =>
             LET url == Head(q)[1]
                 expanded == /\ ~fetched'[url].raised
                             /\ fetched'[url].ct_html
                             /\ fetched'[url].depth < max_depth
             IN /\ expanded <=> branch' = "expand"
                /\ expanded =>
                      /\ { e \in edges' : e[1] = url }
                           = { <<url, l>> : l \in { x \in page_links' : x.netloc = seed.netloc } }
                      /\ \A e \in edges' \ edges : e[1] = url
                /\ ~expanded => edges' = edges
       /\ visited' = visited => edges' = edges]_vars

\* a page other than the seed was expanded whose links are the seed (visited
\* before) and a URL of another host: the first is an edge, the second is not;
\* the seed's link to itself was recorded earlier
C17_Witness ==
    /\ branch = "expand"
    /\ <<seed, seed>> \in edges
    /\ \E u \in visited \ {seed} :
          /\ seed \in page_links
          /\ \E l \in page_links : l.netloc # seed.netloc
          /\ { e \in edges : e[1] = u } = { <<u, seed>> }

\* C18 as stated: each URL is enqueued at most once, so the queue never holds
\* two entries for the same URL
C18_Original == \A i, j \in 1..Len(q) : q[i][1] = q[j][1] => i = j

\* C18 amended: an iteration removes the head of the queue and appends only
\* in-scope links of the expanded page that are not visited at that time (the
\* page itself counts as visited), each link once; the queue may hold several
\* entries for one URL, never more than there are pages that link to it
C18_EnqueueUnvisited ==
    /\ [][(pc = "loop" /\ LoopCond) =>
            /\ Len(q') >= Len(q) - 1
            /\ SubSeq(q', 1, Len(q) - 1) = Tail(q)
            /\ \A i \in Len(q)..Len(q') :
                  /\ q'[i][1] \notin visited'
                  /\ q'[i][1] \in page_links'
                  /\ q'[i][1].netloc = seed.netloc
                  /\ \A j \in Len(q)..Len(q') : q'[i][1] = q'[j][1] => i = j]_vars
    /\ [](\A i \in 1..Len(q) :
            q[i][1] = seed
            \/ Cardinality({ j \in 1..Len(q) : q[j][1] = q[i][1] })
                 <= Cardinality({ e \in edges : e[2] = q[i][1] }))

\* two expanded pages link to the same URL, which is not visited yet: the queue
\* holds two entries for it
C18_Witness ==
    /\ branch = "expand"
    /\ \E i, j \in 1..Len(q) :
          /\ i < j
          /\ q[i][1] = q[j][1]
          /\ q[i][1] \notin visited
          /\ Cardinality({ e \in edges : e[2] = q[i][1] }) = 2

\* the shortest link distance of u from the seed, over the links of expanded pages
Dist(u) ==
    CHOOSE k \in 0..Cardinality(visited) :
        /\ u \in ReachWithin(k)
        /\ \A j \in 0..(k - 1) : u \notin ReachWithin(j)

\* C19: the depths of the queue entries are non-decreasing from front to back
\* and differ by at most 1; pages are visited from the front of the queue, at
\* depths that never decrease; every visited page was visited at its shortest
\* link distance from the seed, which no queue entry for it undercuts
C19_Layers ==
    /\ [](/\ \A i, j \in 1..Len(q) : i < j => (q[i][2] <= q[j][2] /\ q[j][2] <= q[i][2] + 1)
          /\ \A u \in DOMAIN fetched :
                /\ fetched[u].depth = Dist(u)
                /\ \A i \in 1..Len(q) : fetched[u].depth <= q[i][2]
                /\ \A i \in 1..Len(q) : q[i][1] = u => fetched[u].depth <= q[i][2])
    /\ [][(pc = "loop" /\ visited' # visited) =>
            /\ visited' = visited \cup {Head(q)[1]}
            /\ fetched'[Head(q)[1]].depth = Head(q)[2]
            /\ \A v \in visited : fetched[v].depth <= Head(q)[2]]_vars

\* pages were visited at depths 0 and 1, and the queue holds the same URL at
\* depth 1 (linked from the seed) and behind it at depth 2 (linked from a page of
\* depth 1)
C19_Witness ==
    /\ pc = "loop"
    /\ \E u \in visited : fetched[u].depth = 1
    /\ \E i, j \in 1..Len(q) :
          /\ i < j
          /\ q[i][1] = q[j][1]
          /\ q[i][2] = 1
          /\ q[j][2] = 2

\* the status fetch_html returned for a fetched URL: None when requests.get
\* raised, the status code of the response otherwise
FetchStatus(u) == IF fetched[u].raised THEN None ELSE Some(fetched[u].code)

\* C20: the keys of the status map are the visited URLs; the status of a URL is
\* the status code of its one fetch, or None iff the fetch failed outright; an
\* entry once written never changes; every exported node carries the status of
\* its own fetch, and the seed is among the exported nodes
C20_StatusMap ==
    /\ [](/\ DOMAIN status_by_url = visited
          /\ \A u \in visited :
                /\ fetched[u].n = 1
                /\ status_by_url[u] = FetchStatus(u)
                /\ status_by_url[u] = None <=> fetched[u].raised
          /\ pc = "done" =>
                /\ seed \in NodeUrls
                /\ \A i \in 1..Len(Result.nodes) :
                      Result.nodes[i].status = FetchStatus(Result.nodes[i].url))
    /\ [][\A u \in DOMAIN status_by_url :
            u \in DOMAIN status_by_url' /\ status_by_url'[u] = status_by_url[u]]_vars

\* a result whose nodes carry a null status, a 200 and a 404
C20_Witness ==
    /\ pc = "done"
    /\ Len(Result.nodes) >= 3
    /\ \E i \in 1..Len(Result.nodes) : Result.nodes[i].status = None
    /\ \E i \in 1..Len(Result.nodes) : Result.nodes[i].status = Some(200)
    /\ \E i \in 1..Len(Result.nodes) : Result.nodes[i].status = Some(404)

====
